---- MODULE Spec2Model ----
(***************************************************************************)
(* Model of the GitLit API client (src/src/lib.rs): the TokenStore (one    *)
(* token file per sanitized host) and the GitLitClient operations, each    *)
(* split at its single network await into the part that builds and sends   *)
(* the request and the part that interprets the response.                  *)
(*                                                                         *)
(* Strings are sequences of one-character strings.  Option<T> is a         *)
(* sequence of length 0 (None) or 1 (Some).                                *)
(***************************************************************************)
EXTENDS Integers, Sequences, FiniteSets, TLC

VARIABLES
    files,      \* the tokens directory: file path -> Option<file content>
    calls,      \* per caller: the client call in progress or just finished
    last,       \* the most recent direct TokenStore operation and its result
    hist,       \* history of the store and of the logins and logouts
    faulty,     \* environment: whether file-system calls may fail
    client      \* the GitLitClient most recently constructed on its own

vars == <<files, calls, last, hist, faulty, client>>

(*************************** bounds and inputs *****************************)

MaxTokLen == 2

MaxUrlLen == 6

TokenChars == {"x", " "}

Tokens == UNION {[1..n -> TokenChars] : n \in 0..MaxTokLen}

\* base URLs handed to GitLitClient::new
Urls == { <<"a", ".", "b">>, <<"a", "-", "b">>, <<"c">>, <<"c", "/">>,
          <<"c", "/", "/">> }

Procs == {1}

Statuses == {200, 201, 204, 401, 500}

\* whether a JSON body deserializes into the type the operation expects
BodyShapes == {"valid", "invalid"}

None == <<>>

Some(v) == <<v>>

(******************************* strings **********************************)

is_whitespace(c) == c \in {" ", "\t", "\n", "\r"}

RECURSIVE trim_start(_)
trim_start(s) ==
    IF s = <<>> THEN s
    ELSE IF is_whitespace(Head(s)) THEN trim_start(Tail(s)) ELSE s

RECURSIVE trim_end(_)
trim_end(s) ==
    IF s = <<>> THEN s
    ELSE IF is_whitespace(s[Len(s)]) THEN trim_end(SubSeq(s, 1, Len(s) - 1))
    ELSE s

trim(s) == trim_end(trim_start(s))

RECURSIVE trim_end_matches(_, _)
trim_end_matches(s, c) ==
    IF s = <<>> THEN s
    ELSE IF s[Len(s)] = c THEN trim_end_matches(SubSeq(s, 1, Len(s) - 1), c)
    ELSE s

is_ascii_alphanumeric(c) ==
    c \in {"a", "b", "c", "d", "e", "f", "g", "h", "i", "j", "k", "l", "m",
           "n", "o", "p", "q", "r", "s", "t", "u", "v", "w", "x", "y", "z",
           "A", "B", "C", "D", "E", "F", "G", "H", "I", "J", "K", "L", "M",
           "N", "O", "P", "Q", "R", "S", "T", "U", "V", "W", "X", "Y", "Z",
           "0", "1", "2", "3", "4", "5", "6", "7", "8", "9"}

(******************************* errors ***********************************)

Ok(v) == [kind |-> "Ok", msg |-> "", status |-> 0, val |-> v]

HttpError(m) == [kind |-> "Http", msg |-> m, status |-> 0, val |-> None]

IoError == [kind |-> "Io", msg |-> "", status |-> 0, val |-> None]

SerdeError == [kind |-> "Serde", msg |-> "", status |-> 0, val |-> None]

Unauthorized == [kind |-> "Unauthorized", msg |-> "", status |-> 0, val |-> None]

AuthError(m, s) == [kind |-> "Auth", msg |-> m, status |-> s, val |-> None]

NoResult == [kind |-> "Pending", msg |-> "", status |-> 0, val |-> None]

(***************************** TokenStore *********************************)

\* new dropping one trailing slash
new_strip_one(url) ==
    IF Len(url) > 0 /\ url[Len(url)] = "/"
    THEN SubSeq(url, 1, Len(url) - 1) ELSE url

\* GitLitClient::new: self.url
new(url) == trim_end_matches(url, "/")

\* the hosts (self.url, host_key) the clients of the model can have
Hosts == {new(u) : u \in Urls}

sanitized(host) ==
    [i \in 1..Len(host) |->
        IF is_ascii_alphanumeric(host[i]) THEN host[i] ELSE "_"]

\* token_path with one token file for all hosts
token_path_single(host) == <<".token">>

token_path(host) == sanitized(host) \o <<".token">>

Paths == {token_path(h) : h \in Hosts}

exists(fs, p) == fs[p] /= None

\* outcomes of a file-system call
IoOutcomes == IF faulty THEN {TRUE, FALSE} ELSE {TRUE}

\* load with the trim of the file's content left out
load_untrimmed(fs, host, io) ==
    LET p == token_path(host) IN
    IF ~exists(fs, p) THEN Ok(None)
    ELSE IF ~io THEN IoError
    ELSE IF fs[p][1] = <<>> THEN Ok(None) ELSE Ok(Some(fs[p][1]))

\* load with the `!p.exists()` early return left out: reading fails
load_unguarded(fs, host, io) ==
    LET p == token_path(host) IN
    IF ~exists(fs, p) \/ ~io THEN IoError
    ELSE LET token == trim(fs[p][1]) IN
         IF token = <<>> THEN Ok(None) ELSE Ok(Some(token))

\* TokenStore::load; io: whether read_to_string succeeds
load(fs, host, io) ==
    LET p == token_path(host) IN
    IF ~exists(fs, p) THEN Ok(None)
    ELSE IF ~io THEN IoError
    ELSE LET token == trim(fs[p][1]) IN
         IF token = <<>> THEN Ok(None) ELSE Ok(Some(token))

\* TokenStore::save; io: whether create_dir_all and write succeed
save(host, token, io) == IF io THEN Ok(None) ELSE IoError

\* save_files that creates the file but never overwrites one
save_files_if_absent(fs, host, token, io) ==
    IF io /\ ~exists(fs, token_path(host))
    THEN [fs EXCEPT ![token_path(host)] = Some(token)] ELSE fs

save_files(fs, host, token, io) ==
    IF io THEN [fs EXCEPT ![token_path(host)] = Some(token)] ELSE fs

\* TokenStore::delete; io: whether remove_file succeeds
delete(fs, host, io) ==
    IF exists(fs, token_path(host)) /\ ~io THEN IoError ELSE Ok(None)

\* delete_files with the guard inverted: remove_file only when no file exists
delete_files_inverted(fs, host, io) == fs

delete_files(fs, host, io) ==
    IF exists(fs, token_path(host)) /\ io
    THEN [fs EXCEPT ![token_path(host)] = None] ELSE fs

(******************************* history **********************************)

SameFile(g, h) == token_path(g) = token_path(h)

\* The direct store calls keep
\*   hist.saved:   hosts for which TokenStore::save has written a file
\*   hist.deleted: hosts for which TokenStore::delete has returned Ok, no
\*                 save (for any host) having returned Ok since
\* and the client's calls keep
\*   hist.revoked: hosts whose logout was answered 401, no login having been
\*                 started on the host, nor a token saved into its file, since
\*   hist.issued:  per host, the token its last successful login returned, no
\*                 login having been started and no logout answered on the
\*                 host, nor its file written or removed, since
\*   hist.owner:   per token file, the host of the login that saved what the
\*                 file holds
NoHistory ==
    [saved |-> {}, deleted |-> {}, revoked |-> {},
     issued |-> [h \in Hosts |-> None],
     owner |-> [f \in Paths |-> None]]

Forget(issued, h) ==
    [g \in Hosts |-> IF SameFile(g, h) THEN None ELSE issued[g]]

\* a login has saved token t for host h
OnLogin(hs, h, t) ==
    [hs EXCEPT !.revoked = {g \in @ : ~SameFile(g, h)},
               !.issued = [Forget(@, h) EXCEPT ![h] = Some(t)],
               !.owner[token_path(h)] = Some(h)]

\* a logout on host h has been answered with status; removed: the file is gone
OnLogout(hs, h, status, removed) ==
    [hs EXCEPT !.revoked = IF status = 401 THEN @ \cup {h} ELSE @,
               !.issued = IF removed THEN Forget(@, h)
                          ELSE [@ EXCEPT ![h] = None],
               !.owner[token_path(h)] = IF removed THEN None ELSE @]

OnSave(hs, h) == [hs EXCEPT !.saved = @ \cup {h}, !.deleted = {}]

OnDelete(hs, h) == [hs EXCEPT !.deleted = @ \cup {h}]

(***************************** GitLitClient *******************************)

is_success(status) == status >= 200 /\ status <= 299

\* get_token with a missing token defaulted to the empty string
get_token_defaulted(fs, host, io) ==
    LET r == load(fs, host, io) IN
    IF r.kind /= "Ok" THEN r
    ELSE IF r.val /= None THEN Ok(Some(r.val[1])) ELSE Ok(Some(<<>>))

\* GitLitClient::get_token: the token as Ok(Some(token)), or the error
get_token(fs, host, io) ==
    LET r == load(fs, host, io) IN
    IF r.kind /= "Ok" THEN r
    ELSE IF r.val /= None /\ r.val[1] /= <<>> THEN Ok(Some(r.val[1]))
    ELSE AuthError("notoken", 0)

\* GitLitClient::auth: the bearer token attached to the request, or the error
auth(fs, host, io) == get_token(fs, host, io)

\* logout with get_token's error passed on as it is
logout_token_passed(fs, host, io) == get_token(fs, host, io)

\* the first match of logout: a missing token becomes Unauthorized
logout_token(fs, host, io) ==
    LET t == get_token(fs, host, io) IN
    IF t.kind = "Auth" THEN Unauthorized ELSE t

NoResponse == [status |-> 0, shape |-> "none"]

Idle ==
    [pc |-> "idle", op |-> "", url |-> <<>>, bearer |-> None, sent |-> 0,
     resp |-> NoResponse, result |-> NoResult, swallowed |-> FALSE,
     wrote |-> "no"]

\* a call whose request has been sent and whose response is awaited
Sent(op, host, bearer) ==
    [pc |-> "waiting", op |-> op, url |-> host, bearer |-> bearer, sent |-> 1,
     resp |-> NoResponse, result |-> NoResult, swallowed |-> FALSE,
     wrote |-> "no"]

\* Failed with the token looked up only after the request has gone out
Failed_after_send(op, host, err) ==
    [pc |-> "done", op |-> op, url |-> host, bearer |-> None, sent |-> 1,
     resp |-> NoResponse, result |-> err, swallowed |-> FALSE,
     wrote |-> "no"]

\* a call that returned an error before any request was built and sent
Failed(op, host, err) ==
    [pc |-> "done", op |-> op, url |-> host, bearer |-> None, sent |-> 0,
     resp |-> NoResponse, result |-> err, swallowed |-> FALSE,
     wrote |-> "no"]

\* a call that has interpreted the response and returned
Done(c, status, shape, r) ==
    [c EXCEPT !.pc = "done", !.resp = [status |-> status, shape |-> shape],
              !.result = r]

\* the calls once the call of p has written or removed the token file of
\* host: its write is the last one to that file, any other is an earlier one
Wrote(cs, p, host) ==
    [q \in DOMAIN cs |->
        IF q = p THEN [cs[q] EXCEPT !.wrote = "last"]
        ELSE IF cs[q].wrote = "last" /\ SameFile(cs[q].url, host)
        THEN [cs[q] EXCEPT !.wrote = "earlier"]
        ELSE cs[q]]

\* the start of an operation that needs no token
SendPlain(p, op, u) ==
    /\ calls[p].pc = "idle"
    /\ calls' = [calls EXCEPT ![p] = Sent(op, new(u), None)]
    /\ UNCHANGED <<files, last, faulty, client>>

\* the start of an operation that attaches the stored token
SendAuth(p, op, u, t) ==
    /\ calls[p].pc = "idle"
    /\ calls' = [calls EXCEPT ![p] =
                    IF t.kind = "Ok" THEN Sent(op, new(u), t.val)
                    ELSE Failed(op, new(u), t)]
    /\ UNCHANGED <<files, last, hist, faulty, client>>

Awaiting(p, op) == calls[p].pc = "waiting" /\ calls[p].op = op

\* the end of an operation that leaves the store alone
Finish(p, status, shape, r) ==
    /\ calls' = [calls EXCEPT ![p] = Done(calls[p], status, shape, r)]
    /\ UNCHANGED <<files, last, hist, faulty, client>>

(* login *)

\* the body of a 2xx answer to /login: with a `token` string, or without
LoginBodies ==
    {[shape |-> "valid", token |-> t] : t \in Tokens}
        \cup {[shape |-> "invalid", token |-> <<>>]}

Login(p, u) ==
    /\ SendPlain(p, "login", u)
    /\ hist' = [hist EXCEPT !.revoked = @ \ {new(u)},
                            !.issued[new(u)] = None]

\* login_result with the outcome of save() dropped
login_result_ignoring_save(host, status, body, io) ==
    IF ~is_success(status) THEN AuthError("login failed", status)
    ELSE IF body.shape /= "valid" THEN HttpError("decode")
    ELSE Ok(Some(body.token))

\* res.json::<LoginResp>() fails with a reqwest::Error, which `?` converts
\* through From<reqwest::Error> into GitLitError::Http
login_result(host, status, body, io) ==
    IF ~is_success(status) THEN AuthError("login failed", status)
    ELSE IF body.shape /= "valid" THEN HttpError("decode")
    ELSE IF save(host, body.token, io).kind /= "Ok" THEN IoError
    ELSE Ok(Some(body.token))

\* login_files saving the token only when the status is 200
login_files_only_200(fs, host, status, body, io) ==
    IF status = 200 /\ body.shape = "valid"
    THEN save_files(fs, host, body.token, io) ELSE fs

login_files(fs, host, status, body, io) ==
    IF is_success(status) /\ body.shape = "valid"
    THEN save_files(fs, host, body.token, io) ELSE fs

LoginResponse(p, status, body, io) ==
    LET host == calls[p].url
        r == login_result(host, status, body, io)
    IN  /\ Awaiting(p, "login")
        /\ calls' = LET cs == [calls EXCEPT ![p] =
                                    Done(calls[p], status, body.shape, r)]
                     IN  IF r.kind = "Ok" THEN Wrote(cs, p, host) ELSE cs
        /\ files' = login_files(files, host, status, body, io)
        /\ hist' = IF r.kind = "Ok" THEN OnLogin(hist, host, body.token)
                   ELSE hist
        /\ UNCHANGED <<last, faulty, client>>

(* register *)

Register(p, u) == SendPlain(p, "register", u) /\ UNCHANGED hist

register_result(status) ==
    IF status /= 201 THEN AuthError("register failed", status) ELSE Ok(None)

RegisterResponse(p, status) ==
    /\ Awaiting(p, "register")
    /\ Finish(p, status, "valid", register_result(status))

(* the operations returning a deserialized JSON body or raw bytes *)

json_result(name, success, shape, status) ==
    IF ~success THEN AuthError(name, status)
    ELSE IF shape = "valid" THEN Ok(None) ELSE HttpError("decode")

\* ListRepos going through auth() like the operations that need a token
ListReposWithToken(p, u) ==
    SendAuth(p, "list_repos", u, auth(files, new(u), TRUE))

ListRepos(p, u) == SendPlain(p, "list_repos", u) /\ UNCHANGED hist

list_repos_result(status, shape) ==
    json_result("list_repos failed", is_success(status), shape, status)

ListReposResponse(p, status, shape) ==
    /\ Awaiting(p, "list_repos")
    /\ Finish(p, status, shape, list_repos_result(status, shape))

Branches(p, u) == SendPlain(p, "branches", u) /\ UNCHANGED hist

branches_result(status, shape) ==
    json_result("branches failed", is_success(status), shape, status)

BranchesResponse(p, status, shape) ==
    /\ Awaiting(p, "branches")
    /\ Finish(p, status, shape, branches_result(status, shape))

Commits(p, u) == SendPlain(p, "commits", u) /\ UNCHANGED hist

commits_result(status, shape) ==
    json_result("commits failed", is_success(status), shape, status)

CommitsResponse(p, status, shape) ==
    /\ Awaiting(p, "commits")
    /\ Finish(p, status, shape, commits_result(status, shape))

Content(p, u) == SendPlain(p, "content", u) /\ UNCHANGED hist

content_result(status, shape) ==
    json_result("content failed", is_success(status), shape, status)

ContentResponse(p, status, shape) ==
    /\ Awaiting(p, "content")
    /\ Finish(p, status, shape, content_result(status, shape))

Download(p, u) == SendPlain(p, "download", u) /\ UNCHANGED hist

download_result(status) ==
    IF ~is_success(status) THEN AuthError("download failed", status)
    ELSE Ok(None)

DownloadResponse(p, status) ==
    /\ Awaiting(p, "download")
    /\ Finish(p, status, "valid", download_result(status))

(* the operations that attach the stored token *)

CreateRepo(p, u, io) ==
    SendAuth(p, "create_repo", u, auth(files, new(u), io))

\* create_repo_result accepting any 2xx status
create_repo_result_any_2xx(status, shape) ==
    json_result("create_repo failed", is_success(status), shape, status)

create_repo_result(status, shape) ==
    json_result("create_repo failed", status = 201, shape, status)

\* CreateRepoResponse removing the token when the server answers 401
CreateRepoResponseRevoking(p, status, shape) ==
    /\ Awaiting(p, "create_repo")
    /\ calls' = [calls EXCEPT ![p] =
            Done(calls[p], status, shape, create_repo_result(status, shape))]
    /\ files' = IF status = 401 THEN delete_files(files, calls[p].url, TRUE)
                ELSE files
    /\ UNCHANGED <<last, hist, faulty, client>>

CreateRepoResponse(p, status, shape) ==
    /\ Awaiting(p, "create_repo")
    /\ Finish(p, status, shape, create_repo_result(status, shape))

DeleteRepo(p, u, io) ==
    SendAuth(p, "delete_repo", u, auth(files, new(u), io))

delete_repo_result(status, shape) ==
    json_result("delete_repo failed", is_success(status), shape, status)

DeleteRepoResponse(p, status, shape) ==
    /\ Awaiting(p, "delete_repo")
    /\ Finish(p, status, shape, delete_repo_result(status, shape))

DeleteBranch(p, u, io) ==
    SendAuth(p, "delete_branch", u, auth(files, new(u), io))

delete_branch_result(status, shape) ==
    json_result("delete_branch failed", is_success(status), shape, status)

DeleteBranchResponse(p, status, shape) ==
    /\ Awaiting(p, "delete_branch")
    /\ Finish(p, status, shape, delete_branch_result(status, shape))

(* logout *)

Logout(p, u, io) ==
    SendAuth(p, "logout", u, logout_token(files, new(u), io))

\* logout_result without the branch for 401
logout_result_no_401(fs, host, status, io) ==
    IF ~is_success(status) THEN AuthError("logout failed", status)
    ELSE delete(fs, host, io)

logout_result(fs, host, status, io) ==
    IF status = 401 THEN Unauthorized
    ELSE IF ~is_success(status) THEN AuthError("logout failed", status)
    ELSE delete(fs, host, io)

\* logout_files without the branch for 401
logout_files_no_401(fs, host, status, io) ==
    IF is_success(status) THEN delete_files(fs, host, io) ELSE fs

\* logout_files deleting the token whatever the server answered
logout_files_always(fs, host, status, io) == delete_files(fs, host, io)

logout_files(fs, host, status, io) ==
    IF status = 401 \/ is_success(status) THEN delete_files(fs, host, io)
    ELSE fs

\* `let _ = self.token_store.delete(..)`: the 401 branch ignores the result
logout_swallowed(fs, host, status, io) ==
    status = 401 /\ delete(fs, host, io).kind /= "Ok"

\* LogoutResponse deleting only a token file that still holds the token sent
LogoutResponseGuarded(p, status, io) ==
    LET host == calls[p].url
        same == load(files, host, TRUE).val = calls[p].bearer
        removed == /\ status = 401 \/ is_success(status)
                   /\ same
                   /\ delete(files, host, io).kind = "Ok"
    IN  /\ Awaiting(p, "logout")
        /\ calls' = LET cs == [calls EXCEPT ![p] =
                        [Done(calls[p], status, "valid",
                              logout_result(files, host, status, io))
                         EXCEPT !.swallowed =
                              logout_swallowed(files, host, status, io)]]
                     IN  IF removed THEN Wrote(cs, p, host) ELSE cs
        /\ files' = IF same THEN logout_files(files, host, status, io)
                    ELSE files
        /\ hist' = OnLogout(hist, host, status, removed)
        /\ UNCHANGED <<last, faulty, client>>

LogoutResponse(p, status, io) ==
    LET host == calls[p].url
        removed == /\ status = 401 \/ is_success(status)
                   /\ delete(files, host, io).kind = "Ok"
    IN  /\ Awaiting(p, "logout")
        /\ calls' = LET cs == [calls EXCEPT ![p] =
                        [Done(calls[p], status, "valid",
                              logout_result(files, host, status, io))
                         EXCEPT !.swallowed =
                              logout_swallowed(files, host, status, io)]]
                     IN  IF removed THEN Wrote(cs, p, host) ELSE cs
        /\ files' = logout_files(files, host, status, io)
        /\ hist' = OnLogout(hist, host, status, removed)
        /\ UNCHANGED <<last, faulty, client>>

(* the transport *)

\* `.send().await?` fails: no response, GitLitError::Http
TransportFail(p) ==
    /\ calls[p].pc = "waiting"
    /\ Finish(p, 0, "none", HttpError("send"))

\* the caller has taken the result
Return(p) ==
    /\ calls[p].pc = "done"
    /\ calls' = [calls EXCEPT ![p] = Idle]
    /\ UNCHANGED <<files, last, hist, faulty, client>>

(*************************** construction alone ***************************)

UrlChars == {"c", "/"}

\* the base URLs given to GitLitClient::new
RawUrls == UNION {[1..n -> UrlChars] : n \in 0..MaxUrlLen}

NoClient ==
    [built |-> FALSE, given |-> <<>>, url |-> <<>>, host_key |-> <<>>,
     login_url |-> <<>>]

\* GitLitClient::new(url), with what the client then uses: host_key() for
\* the store, and the URL of a request (that of login)
New(url) ==
    /\ client' = [built |-> TRUE, given |-> url, url |-> new(url),
                  host_key |-> new(url),
                  login_url |-> new(url) \o <<"/api/v1/login">>]
    /\ UNCHANGED <<files, calls, last, hist, faulty>>

(************************** direct store calls ****************************)

NoOp == [op |-> "none", host |-> <<>>, token |-> <<>>]

Previous == [op |-> last.op, host |-> last.host, token |-> last.token]

StoreSave(h, t, io) ==
    /\ files' = save_files(files, h, t, io)
    /\ hist' = IF save(h, t, io).kind = "Ok" THEN OnSave(hist, h) ELSE hist
    /\ last' = [op |-> "save", host |-> h, token |-> t,
                result |-> save(h, t, io), prev |-> Previous]
    /\ UNCHANGED <<calls, faulty, client>>

StoreLoad(h, io) ==
    /\ last' = [op |-> "load", host |-> h, token |-> <<>>,
                result |-> load(files, h, io), prev |-> Previous]
    /\ UNCHANGED <<files, calls, hist, faulty, client>>

StoreDelete(h, io) ==
    /\ files' = delete_files(files, h, io)
    /\ hist' = IF delete(files, h, io).kind = "Ok" THEN OnDelete(hist, h)
               ELSE hist
    /\ last' = [op |-> "delete", host |-> h, token |-> <<>>,
                result |-> delete(files, h, io), prev |-> Previous]
    /\ UNCHANGED <<calls, faulty, client>>

(**************************** specifications ******************************)

InitState ==
    /\ files = [p \in Paths |-> None]
    /\ calls = [p \in Procs |-> Idle]
    /\ last = [op |-> "none", host |-> <<>>, token |-> <<>>,
               result |-> NoResult, prev |-> NoOp]
    /\ hist = NoHistory
    /\ client = NoClient

Init == InitState /\ faulty = FALSE

InitIO == InitState /\ faulty = TRUE

Next ==
    \/ \E p \in Procs, u \in Urls : Login(p, u)
    \/ \E p \in Procs, s \in Statuses, b \in LoginBodies, io \in IoOutcomes :
            LoginResponse(p, s, b, io)
    \/ \E p \in Procs, u \in Urls : Register(p, u)
    \/ \E p \in Procs, s \in Statuses : RegisterResponse(p, s)
    \/ \E p \in Procs, u \in Urls : ListRepos(p, u)
    \/ \E p \in Procs, s \in Statuses, b \in BodyShapes :
            ListReposResponse(p, s, b)
    \/ \E p \in Procs, u \in Urls : Branches(p, u)
    \/ \E p \in Procs, s \in Statuses, b \in BodyShapes :
            BranchesResponse(p, s, b)
    \/ \E p \in Procs, u \in Urls : Commits(p, u)
    \/ \E p \in Procs, s \in Statuses, b \in BodyShapes :
            CommitsResponse(p, s, b)
    \/ \E p \in Procs, u \in Urls : Content(p, u)
    \/ \E p \in Procs, s \in Statuses, b \in BodyShapes :
            ContentResponse(p, s, b)
    \/ \E p \in Procs, u \in Urls : Download(p, u)
    \/ \E p \in Procs, s \in Statuses : DownloadResponse(p, s)
    \/ \E p \in Procs, u \in Urls, io \in IoOutcomes : CreateRepo(p, u, io)
    \/ \E p \in Procs, s \in Statuses, b \in BodyShapes :
            CreateRepoResponse(p, s, b)
    \/ \E p \in Procs, u \in Urls, io \in IoOutcomes : DeleteRepo(p, u, io)
    \/ \E p \in Procs, s \in Statuses, b \in BodyShapes :
            DeleteRepoResponse(p, s, b)
    \/ \E p \in Procs, u \in Urls, io \in IoOutcomes : DeleteBranch(p, u, io)
    \/ \E p \in Procs, s \in Statuses, b \in BodyShapes :
            DeleteBranchResponse(p, s, b)
    \/ \E p \in Procs, u \in Urls, io \in IoOutcomes : Logout(p, u, io)
    \/ \E p \in Procs, s \in Statuses, io \in IoOutcomes :
            LogoutResponse(p, s, io)
    \/ \E p \in Procs : TransportFail(p)
    \/ \E p \in Procs : Return(p)

StoreNext ==
    \/ \E h \in Hosts, t \in Tokens, io \in IoOutcomes : StoreSave(h, t, io)
    \/ \E h \in Hosts, io \in IoOutcomes : StoreLoad(h, io)
    \/ \E h \in Hosts, io \in IoOutcomes : StoreDelete(h, io)

\* the client, called by one caller at a time, on a file system that works
Spec == Init /\ [][Next]_vars

\* the client on a file system whose calls may fail
SpecIO == InitIO /\ [][Next]_vars

\* the TokenStore called directly, on a file system that works
StoreSpec == Init /\ [][StoreNext]_vars

NewNext == \E url \in RawUrls : New(url)

\* clients constructed from every base URL
NewSpec == Init /\ [][NewNext]_vars

\* two callers, each with a client of its own for the same server
ConcProcs == {1, 2}

ConcUrls == { <<"c">>, <<"c", "/">> }

InitConc ==
    /\ files = [p \in Paths |-> None]
    /\ calls = [p \in ConcProcs |-> Idle]
    /\ last = [op |-> "none", host |-> <<>>, token |-> <<>>,
               result |-> NoResult, prev |-> NoOp]
    /\ hist = NoHistory
    /\ faulty = FALSE
    /\ client = NoClient

ConcNext ==
    \/ \E p \in ConcProcs, u \in ConcUrls : Login(p, u)
    \/ \E p \in ConcProcs, s \in Statuses, b \in LoginBodies,
          io \in IoOutcomes : LoginResponse(p, s, b, io)
    \/ \E p \in ConcProcs, u \in ConcUrls, io \in IoOutcomes :
            Logout(p, u, io)
    \/ \E p \in ConcProcs, s \in Statuses, io \in IoOutcomes :
            LogoutResponse(p, s, io)
    \/ \E p \in ConcProcs : TransportFail(p)
    \/ \E p \in ConcProcs : Return(p)

\* logins and logouts of two callers interleaved, the file system working
ConcSpec == InitConc /\ [][ConcNext]_vars

(******************************** claims **********************************)

AuthOps == {"create_repo", "delete_repo", "delete_branch", "logout"}

StoreFreeOps ==
    {"register", "list_repos", "create_repo", "delete_repo", "branches",
     "delete_branch", "commits", "content", "download"}

\* a string with a character that is not white space
NonBlank(t) == \E i \in 1..Len(t) : ~is_whitespace(t[i])

\* the store holds no token for the host: no file, or an empty or
\* whitespace-only one
HoldsNoToken(fs, host) ==
    fs[token_path(host)] = None \/ ~NonBlank(fs[token_path(host)][1])

\* the error a missing token gives each authenticated operation
MissingTokenError(op) ==
    IF op = "logout" THEN Unauthorized ELSE AuthError("notoken", 0)

\* C1: an authenticated operation (create_repo, delete_repo, delete_branch,
\* logout) called while the store holds no token for the client's host (no
\* file, an empty file, a whitespace-only file) returns an error in that very
\* step, having sent no request -- also when the file system fails.
C1_NoTokenNoRequest ==
    [][\A p \in Procs :
        (/\ calls[p].pc = "idle"
         /\ calls'[p].op \in AuthOps
         /\ HoldsNoToken(files, calls'[p].url))
        => (/\ calls'[p].pc = "done"
            /\ calls'[p].sent = 0
            /\ calls'[p].result.kind \notin {"Ok", "Pending"})]_vars

C1_Witness ==
    \E p \in Procs :
        /\ calls[p].pc = "done"
        /\ calls[p].op = "create_repo"
        /\ calls[p].sent = 0
        /\ files[token_path(calls[p].url)] = Some(<<" ">>)

IsRevokingLogout(c) == c.op = "logout" /\ c.resp.status = 401

C4_Original ==
    \A p \in Procs :
        /\ (calls[p].pc = "done" /\ calls[p].op = "login"
                /\ calls[p].result.kind = "Ok")
            => files[token_path(calls[p].url)] = calls[p].result.val
        /\ (calls[p].op \in AuthOps /\ hist.issued[calls[p].url] /= None)
            => (/\ calls[p].sent = 1
                /\ calls[p].bearer = hist.issued[calls[p].url])

\* C4, amended: a login that returned token t has stored t, as it is, for its
\* host; the next authenticated operation on that host (no login or logout on
\* it, and no write or removal of its token file, intervening) sends its
\* request with t stripped of leading and trailing white space as bearer
\* token, and sends nothing and fails as with no token when t is blank.
C4_LoginThenBearer ==
    \A p \in Procs :
        /\ (calls[p].pc = "done" /\ calls[p].op = "login"
                /\ calls[p].result.kind = "Ok")
            => files[token_path(calls[p].url)] = calls[p].result.val
        /\ (calls[p].op \in AuthOps /\ hist.issued[calls[p].url] /= None)
            => LET t == hist.issued[calls[p].url][1] IN
               IF NonBlank(t)
               THEN /\ calls[p].sent = 1
                    /\ calls[p].bearer = Some(trim(t))
               ELSE /\ calls[p].pc = "done"
                    /\ calls[p].sent = 0
                    /\ calls[p].result = MissingTokenError(calls[p].op)

C4_Witness ==
    \E p \in Procs :
        /\ calls[p].pc = "waiting"
        /\ calls[p].op = "create_repo"
        /\ hist.issued[calls[p].url] = Some(<<" ", "x">>)
        /\ calls[p].bearer = Some(<<"x">>)

\* C5 as stated: a login answered 2xx with a body without a `token` field
\* fails with the Serde error and leaves the store as it was.
C5_Original ==
    [][\A p \in Procs :
        (/\ calls[p].pc = "waiting"
         /\ calls[p].op = "login"
         /\ calls'[p].pc = "done"
         /\ is_success(calls'[p].resp.status)
         /\ calls'[p].resp.shape = "invalid")
        => (calls'[p].result.kind = "Serde" /\ files' = files)]_vars

\* C6 as stated: save(id, t) with t not blank, immediately followed by
\* load(id), returns exactly t.
C6_Original ==
    (/\ last.op = "load"
     /\ last.prev.op = "save"
     /\ last.prev.host = last.host
     /\ NonBlank(last.prev.token))
    => last.result = Ok(Some(last.prev.token))

\* C6, amended: save(id, t) with t not blank, immediately followed by
\* load(id), returns t stripped of its leading and trailing white space.
C6_RoundTripTrimmed ==
    (/\ last.op = "load"
     /\ last.prev.op = "save"
     /\ last.prev.host = last.host
     /\ NonBlank(last.prev.token))
    => last.result = Ok(Some(trim(last.prev.token)))

C6_Witness ==
    /\ last.op = "load"
    /\ last.prev.op = "save"
    /\ last.prev.host = last.host
    /\ last.prev.token = <<"x", " ">>
    /\ last.result = Ok(Some(<<"x">>))

\* C7: delete(id) returns Ok whether or not a token is stored for id, and a
\* load(id) after it, no save intervening, returns absent.
C7_DeleteThenLoadAbsent ==
    /\ last.op = "delete" => last.result = Ok(None)
    /\ (last.op = "load" /\ last.host \in hist.deleted)
        => last.result = Ok(None)
    /\ \A h \in hist.deleted : ~exists(files, token_path(h))

C7_Witness ==
    /\ last.op = "load"
    /\ last.prev.op = "delete"
    /\ last.prev.host = last.host
    /\ last.host \in hist.deleted
    /\ last.host \in hist.saved
    /\ last.result = Ok(None)

\* C8 as stated: load(id) returns absent after any sequence of store calls
\* with no save(id, _) for that same identity string.
C8_Original ==
    (last.op = "load" /\ last.host \notin hist.saved)
    => last.result = Ok(None)

\* C8, amended: load(id) returns absent, and no error, after any sequence of
\* store calls with no save for id or for an identity that sanitizes to the
\* same file name.
C8_LoadWithoutSave ==
    (last.op = "load" /\ \A g \in hist.saved : ~SameFile(g, last.host))
    => last.result = Ok(None)

C8_Witness ==
    /\ last.op = "load"
    /\ hist.saved /= {}
    /\ hist.deleted /= {}
    /\ \A g \in hist.saved : ~SameFile(g, last.host)
    /\ last.result = Ok(None)

\* C9: register, list_repos, create_repo, delete_repo, branches,
\* delete_branch, commits, content and download leave every token file as it
\* is, in each of their steps and whatever the server answers.
C9_StoreWrittenOnlyByLoginLogout ==
    [][\A p \in Procs :
        (/\ calls'[p] /= calls[p]
         /\ calls[p].op \in StoreFreeOps \/ calls'[p].op \in StoreFreeOps)
        => files' = files]_vars

C9_Witness ==
    \E p \in Procs :
        /\ calls[p].pc = "done"
        /\ calls[p].op = "create_repo"
        /\ calls[p].resp.status = 401
        /\ calls[p].bearer /= None
        /\ ~HoldsNoToken(files, calls[p].url)

\* C10 as stated: after an authenticated operation that sent the stored
\* token was answered 401, the store holds no token for the host.
C10_Original ==
    \A p \in Procs :
        (/\ calls[p].pc = "done"
         /\ calls[p].op \in AuthOps
         /\ calls[p].sent = 1
         /\ calls[p].resp.status = 401)
        => HoldsNoToken(files, calls[p].url)

\* C10, amended: only logout destroys the token on a 401; create_repo,
\* delete_repo and delete_branch answered 401 return the Auth error carrying
\* the status and leave the token they sent in the store.
C10_RejectedCredential ==
    \A p \in Procs :
        (/\ calls[p].pc = "done"
         /\ calls[p].op \in AuthOps
         /\ calls[p].sent = 1
         /\ calls[p].resp.status = 401)
        => IF calls[p].op = "logout"
           THEN HoldsNoToken(files, calls[p].url)
           ELSE /\ calls[p].result.kind = "Auth"
                /\ calls[p].result.status = 401
                /\ files[token_path(calls[p].url)] /= None
                /\ Some(trim(files[token_path(calls[p].url)][1]))
                        = calls[p].bearer

C10_Witness ==
    \E p \in Procs :
        /\ calls[p].pc = "done"
        /\ calls[p].op = "delete_branch"
        /\ calls[p].resp.status = 401
        /\ calls[p].result = AuthError("delete_branch failed", 401)
        /\ ~HoldsNoToken(files, calls[p].url)

\* the request of the call has completed: a response, or a transport error
Completed(c) == c.resp.status /= 0 \/ c.result = HttpError("send")

\* C11 as stated: every call of every operation sends exactly one request
\* and returns only after that request has completed.
C11_Original ==
    \A p \in Procs :
        /\ calls[p].pc = "waiting" => calls[p].sent = 1
        /\ calls[p].pc = "done"
            => (calls[p].sent = 1 /\ Completed(calls[p]))

\* C11, amended: every call sends at most one request, and one that has sent
\* its request returns only after the request has completed; the calls that
\* send none are the authenticated operations that find no token stored, or
\* cannot read the token file, and these return that error at once; every
\* other call sends exactly one.
C11_AtMostOneRequest ==
    \A p \in Procs :
        /\ calls[p].sent \in {0, 1}
        /\ calls[p].pc = "waiting" => calls[p].sent = 1
        /\ (calls[p].pc = "done" /\ calls[p].sent = 1) => Completed(calls[p])
        /\ (calls[p].pc = "done" /\ calls[p].sent = 0)
            => (/\ calls[p].op \in AuthOps
                /\ calls[p].resp.status = 0
                /\ \/ /\ calls[p].result = MissingTokenError(calls[p].op)
                      /\ HoldsNoToken(files, calls[p].url)
                   \/ /\ calls[p].result = IoError
                      /\ exists(files, token_path(calls[p].url)))

C11_Witness ==
    \E p \in Procs :
        /\ calls[p].pc = "done"
        /\ calls[p].op = "delete_repo"
        /\ calls[p].sent = 0
        /\ calls[p].result = IoError

\* the statuses on which an operation can succeed
SuccessStatuses(op) ==
    IF op \in {"register", "create_repo"} THEN {201} ELSE 200..299

\* C12: a call can succeed only on a status of its operation's success set
\* (201 alone for register and create_repo, any 2xx for the others); every
\* other status gives the Auth error carrying that status, except that
\* logout answers a 401 with Unauthorized.
C12_StatusMapping ==
    \A p \in Procs :
        (calls[p].pc = "done" /\ calls[p].resp.status /= 0)
        => IF calls[p].resp.status \in SuccessStatuses(calls[p].op)
           THEN calls[p].result.kind \notin {"Auth", "Unauthorized"}
           ELSE IF calls[p].op = "logout" /\ calls[p].resp.status = 401
           THEN calls[p].result = Unauthorized
           ELSE /\ calls[p].result.kind = "Auth"
                /\ calls[p].result.status = calls[p].resp.status

C12_Witness ==
    \E p \in Procs :
        /\ calls[p].pc = "done"
        /\ calls[p].op = "create_repo"
        /\ calls[p].resp.status = 200
        /\ calls[p].resp.shape = "valid"
        /\ calls[p].result = AuthError("create_repo failed", 200)

\* a login that got a usable answer either saved the token or returns Io
LoginStepReported(c) ==
    (c.op = "login" /\ is_success(c.resp.status) /\ c.resp.shape = "valid")
    => \/ c.result.kind = "Ok" /\ files[token_path(c.url)] = c.result.val
       \/ c.result = IoError

\* an authenticated call that sent nothing reports the store as it is
ReadStepReported(c) ==
    (c.op \in AuthOps /\ c.sent = 0)
    => \/ c.result = MissingTokenError(c.op) /\ HoldsNoToken(files, c.url)
       \/ c.result = IoError /\ exists(files, token_path(c.url))

\* a logout answered with a 2xx either removed the file or returns Io
LogoutStepReported(c) ==
    (c.op = "logout" /\ is_success(c.resp.status))
    => \/ c.result.kind = "Ok" /\ ~exists(files, token_path(c.url))
       \/ c.result = IoError /\ exists(files, token_path(c.url))

\* C13 as stated: every failure inside an operation, a store failure
\* included, is returned as its error; no call ignores a failed step and
\* reports an outcome as if the step had been carried out.
C13_Original ==
    \A p \in Procs :
        calls[p].pc = "done"
        => /\ LoginStepReported(calls[p])
           /\ ReadStepReported(calls[p])
           /\ LogoutStepReported(calls[p])
           /\ ~calls[p].swallowed
           /\ (calls[p].op = "logout" /\ calls[p].resp.status = 401)
                => ~exists(files, token_path(calls[p].url))

\* C13, amended: every failure inside an operation is returned as its
\* error, except a failure to delete the token file after logout was
\* answered 401: that one is ignored, logout returns Unauthorized and the
\* token file stays.
C13_OnlyLogout401Swallows ==
    \A p \in Procs :
        calls[p].pc = "done"
        => /\ LoginStepReported(calls[p])
           /\ ReadStepReported(calls[p])
           /\ LogoutStepReported(calls[p])
           /\ calls[p].swallowed
                => (calls[p].op = "logout" /\ calls[p].resp.status = 401)
           /\ (calls[p].op = "logout" /\ calls[p].resp.status = 401)
                => /\ calls[p].result = Unauthorized
                   /\ calls[p].swallowed
                        <=> exists(files, token_path(calls[p].url))

C13_Witness ==
    \E p \in Procs :
        /\ calls[p].pc = "done"
        /\ calls[p].op = "logout"
        /\ calls[p].resp.status = 401
        /\ calls[p].swallowed
        /\ calls[p].result = Unauthorized
        /\ exists(files, token_path(calls[p].url))

\* C14: when a login and a logout on one identity run concurrently, the
\* token file ends as the last store write left it: holding the login's
\* token when the login's save came last, absent when the logout's delete
\* came last.
C14_LastWriterWins ==
    \A p \in ConcProcs :
        calls[p].wrote = "last"
        => files[token_path(calls[p].url)] =
              IF calls[p].op = "login" THEN calls[p].result.val ELSE None

\* the logout read its token before the login saved, and deleted after it
C14_Witness ==
    \E p, q \in ConcProcs :
        /\ calls[p].pc = "done" /\ calls[p].op = "login"
        /\ calls[p].result.kind = "Ok"
        /\ calls[p].wrote = "earlier"
        /\ calls[q].pc = "done" /\ calls[q].op = "logout"
        /\ calls[q].url = calls[p].url
        /\ is_success(calls[q].resp.status)
        /\ calls[q].wrote = "last"
        /\ calls[q].bearer /= Some(trim(calls[p].result.val[1]))
        /\ files[token_path(calls[q].url)] = None

\* the operations that need no token
PlainOps ==
    {"login", "register", "list_repos", "branches", "commits", "content",
     "download"}

\* the result of a finished call of an operation that needs no token, as its
\* operation and the server's answer alone give it
PlainOutcome(c) ==
    IF c.resp.status = 0 THEN c.result = HttpError("send")
    ELSE IF c.resp.status \notin SuccessStatuses(c.op)
    THEN c.result.kind = "Auth" /\ c.result.status = c.resp.status
    ELSE IF c.resp.shape = "valid" THEN c.result.kind = "Ok"
    ELSE c.result = HttpError("decode")

\* C15: the operations that need no token (list_repos, branches, commits,
\* content, download, login, register) send their request without a bearer
\* token and return what the server's answer alone determines, whether or
\* not a token is stored for the host.
C15_PlainOpsIgnoreStore ==
    \A p \in Procs :
        calls[p].op \in PlainOps
        => /\ calls[p].bearer = None
           /\ calls[p].sent = 1
           /\ calls[p].pc = "done" => PlainOutcome(calls[p])

C15_Witness ==
    \E p \in Procs :
        /\ calls[p].pc = "done"
        /\ calls[p].op = "list_repos"
        /\ calls[p].result.kind = "Ok"
        /\ calls[p].bearer = None
        /\ ~HoldsNoToken(files, calls[p].url)

\* the string ends with a slash
EndsWithSlash(u) == Len(u) > 0 /\ u[Len(u)] = "/"

\* the client uses its URL as the prefix of requests and as store identity
UsesItsUrl(c) ==
    c.host_key = c.url /\ c.login_url = c.url \o <<"/api/v1/login">>

\* C16 as stated: construction drops a single trailing slash -- a base URL
\* without one is kept as given, one ending in slashes loses exactly one --
\* and the result is both the request prefix and the store identity.
C16_Original ==
    client.built
    => /\ client.url = IF EndsWithSlash(client.given)
                       THEN SubSeq(client.given, 1, Len(client.given) - 1)
                       ELSE client.given
       /\ UsesItsUrl(client)

\* C16, amended: construction drops every trailing slash -- a base URL
\* without one is kept as given, one ending in k slashes loses all k -- and
\* the result is both the request prefix and the store identity.
C16_AllTrailingSlashesDropped ==
    client.built
    => /\ ~EndsWithSlash(client.url)
       /\ Len(client.url) <= Len(client.given)
       /\ \A i \in 1..Len(client.given) :
            IF i <= Len(client.url) THEN client.given[i] = client.url[i]
            ELSE client.given[i] = "/"
       /\ UsesItsUrl(client)

C16_Witness ==
    /\ client.built
    /\ client.given = <<"c", "/", "c", "/", "/">>
    /\ client.url = <<"c", "/", "c">>

\* C17: a logout that sent its request and got a status that is neither 2xx
\* nor 401, or no response at all, returns the Auth error with that status,
\* or the transport error, and leaves the stored token as it was: the next
\* authenticated call on the host still sends it.
C17_LogoutFailureKeepsToken ==
    \A p \in Procs :
        (/\ calls[p].pc = "done" /\ calls[p].op = "logout"
         /\ calls[p].sent = 1
         /\ ~is_success(calls[p].resp.status)
         /\ calls[p].resp.status /= 401)
        => /\ calls[p].result =
                IF calls[p].resp.status = 0 THEN HttpError("send")
                ELSE AuthError("logout failed", calls[p].resp.status)
           /\ exists(files, token_path(calls[p].url))
           /\ get_token(files, calls[p].url, TRUE).kind = "Ok"
           /\ get_token(files, calls[p].url, TRUE).val = calls[p].bearer
           /\ calls[p].wrote = "no"

C17_Witness ==
    \E p \in Procs :
        /\ calls[p].pc = "done" /\ calls[p].op = "logout"
        /\ calls[p].resp.status = 500
        /\ calls[p].result = AuthError("logout failed", 500)
        /\ get_token(files, calls[p].url, TRUE).val = calls[p].bearer
        /\ calls[p].bearer /= None

\* two host names that differ at most in characters that are neither ASCII
\* letters nor digits
SameName(g, h) ==
    /\ Len(g) = Len(h)
    /\ \A i \in 1..Len(g) :
          \/ g[i] = h[i]
          \/ ~is_ascii_alphanumeric(g[i]) /\ ~is_ascii_alphanumeric(h[i])

\* the host whose login saved the token an authenticated call is sending
Issuer(c) == hist.owner[token_path(c.url)]

\* C18 as stated: a token saved by a login on one normalized URL is never
\* sent as bearer token by a client of a different normalized URL.
C18_Original ==
    \A p \in Procs :
        (calls[p].pc = "waiting" /\ calls[p].op \in AuthOps)
        => Issuer(calls[p]) = Some(calls[p].url)

\* C18, amended: a token saved by a login on one normalized URL is sent as
\* bearer token only by clients whose normalized URL is the same up to its
\* characters that are neither ASCII letters nor digits.
C18_TokenStaysWithItsFile ==
    \A p \in Procs :
        (calls[p].pc = "waiting" /\ calls[p].op \in AuthOps)
        => /\ Issuer(calls[p]) /= None
           /\ SameName(Issuer(calls[p])[1], calls[p].url)

\* a call on one host sends its own token while another host's is stored
C18_Witness ==
    \E p \in Procs, g \in Hosts :
        /\ calls[p].pc = "waiting" /\ calls[p].op \in AuthOps
        /\ Issuer(calls[p]) = Some(calls[p].url)
        /\ ~SameName(g, calls[p].url)
        /\ hist.owner[token_path(g)] = Some(g)
        /\ ~HoldsNoToken(files, g)

\* the login of p saved its token, and the logout of q then deleted the file
DeletedAfterSave(p, q) ==
    /\ calls[p].pc = "done" /\ calls[p].op = "login"
    /\ calls[p].result.kind = "Ok"
    /\ calls[p].wrote = "earlier"
    /\ calls[q].pc = "done" /\ calls[q].op = "logout"
    /\ calls[q].url = calls[p].url
    /\ calls[q].wrote = "last"

\* C19 as stated: the token a logout removes is the token it sent -- a logout
\* that read one token and was answered 2xx or 401 never deletes a different
\* token that a concurrent login saved after the logout's read.
C19_Original ==
    \A p, q \in ConcProcs :
        DeletedAfterSave(p, q)
        => calls[q].bearer = Some(trim(calls[p].result.val[1]))

\* C19, amended: a logout answered 2xx or 401 removes the token file of its
\* host whatever token the file holds by then, the token a concurrent login
\* saved after the logout's read included; answered otherwise, it leaves
\* the file as it is.
C19_LogoutDeletesWhateverIsStored ==
    [][\A p \in ConcProcs :
          (Awaiting(p, "logout") /\ calls'[p].pc = "done")
          => IF calls'[p].resp.status = 401
                \/ is_success(calls'[p].resp.status)
             THEN ~exists(files', token_path(calls[p].url))
             ELSE files' = files]_vars

\* a logout answered 401 has deleted a token that it had not sent
C19_Witness ==
    \E p, q \in ConcProcs :
        /\ DeletedAfterSave(p, q)
        /\ calls[q].resp.status = 401
        /\ NonBlank(calls[p].result.val[1])
        /\ calls[q].bearer /= Some(trim(calls[p].result.val[1]))
        /\ ~exists(files, token_path(calls[q].url))

====
